---- MODULE Spec2Model ----
(***************************************************************************)
(* Food Fortress: the fridge store (json\fridge.json), the add-food menu   *)
(* and the table click handlers, and the fatal-error log.                  *)
(*                                                                         *)
(* Every store operation of the program is "Fridge::open() -> transform -> *)
(* update()".  The model keeps one step per file-system access (a whole    *)
(* file read or a whole file overwrite) so that application instances that *)
(* share the file can interleave exactly where the operating system lets   *)
(* them.  Within one instance the steps of a handler follow each other in  *)
(* program order (pc).                                                     *)
(*                                                                         *)
(* Names are sequences of bytes (String), so that String::cmp and          *)
(* make_ascii_uppercase are computed and not assumed.                      *)
(*                                                                         *)
(* The calendar arithmetic and the orderings of backend.rs are also called *)
(* on their own (view), on arguments drawn from all the values they take.  *)
(***************************************************************************)
EXTENDS Integers, Sequences, FiniteSets, TLC

(***************************************************************************)
(* State                                                                   *)
(***************************************************************************)
VARIABLES
    file,       \* json\fridge.json: the serialized Fridge, [foods |-> ...]
    storeUp,    \* environment: opening and writing json\fridge.json succeeds
    logf,       \* log\log.log: the lines appended
    pc,         \* where each instance is
    menu,       \* AddFoodMenu of each instance: new_food_name, new_day, new_month
    left,       \* iterations left of "for _ in 0..self.quantity"
    food,       \* the local `food` of the running handler
    fridge,     \* the Fridge value between open() and update()
    snapshot,   \* the Fridge that Table::ui iterates over
    created,    \* history: the foods each instance has added and saved
    made,       \* history: how many foods each instance has created
    view        \* a call of a backend function on its own: fn, args, at, ret

vars == <<file, storeUp, logf, pc, menu, left, food, fridge, snapshot, created, made,
          view>>

(***************************************************************************)
(* Bounds of the model.                                                    *)
(***************************************************************************)
\* foods the instance may create in a run when it is alone (caps the id counter)
MaxCreate == 3
\* foods each instance may create in a run when two instances share the file
MaxCreateShared == 1
\* rows of the table at which the user still clicks when two instances share the
\* file (stale re-adds let the shared store grow without bound)
MaxRowsShared == 2
\* foods, and the largest id, of a fridge.json the instance finds when it starts
MaxStored == 2
MaxStoredId == 2
\* largest quantity tried in the add-food menu (the widget allows 1..=10)
MaxQuantity == 2
\* foods of a fridge handed to Fridge::update when it is called on its own
MaxSaved == 3

Procs == {1, 2}

\* what the user types in the name field: "a", "B", "" and a non-ascii start
NameInputs == {<<97>>, <<66>>, <<>>, <<195, 168>>}
\* what the user drags the day and month fields to (within the widget ranges):
\* 31 / 01, 01 / 02 and the invalid 30 / 02
DateInputs == {<<31, 1>>, <<1, 2>>, <<30, 2>>}

(***************************************************************************)
(* backend.rs: calendar tables and BestBefore                              *)
(***************************************************************************)
DAY_COUNT_FOR_MONTH == <<31, 29, 31, 30, 31, 30, 31, 31, 30, 31, 30, 31>>
MONTHS == {1, 2, 3, 4, 5, 6, 7, 8, 9, 10, 11, 12}

BestBeforeNew(day, month) == [day |-> day, month |-> month]

\* a bug would_be_valid could have: the days of a month start at 0
would_be_valid_from_zero(day, month) ==
    IF month \in MONTHS
    THEN day \in 0..DAY_COUNT_FOR_MONTH[month]
    ELSE FALSE

\* would_be_valid panics instead of returning: DAY_COUNT_FOR_MONTH[month as
\* usize - 1] is evaluated, after MONTHS.contains(&month) held, with an index
\* that underflows or is past the table
would_be_valid_panics(day, month) ==
    month \in MONTHS /\ (month - 1 < 0 \/ month - 1 >= Len(DAY_COUNT_FOR_MONTH))

\* && short-circuits: the table is indexed only when month is one of MONTHS
would_be_valid(day, month) ==
    IF month \in MONTHS
    THEN day \in 1..DAY_COUNT_FOR_MONTH[month]
    ELSE FALSE

\* cmp::Ordering as -1 (Less), 0 (Equal), 1 (Greater)
IntCmp(a, b) == IF a < b THEN -1 ELSE IF a > b THEN 1 ELSE 0

BestBeforeCmp(a, b) ==
    IF IntCmp(a.month, b.month) = 0
    THEN IntCmp(a.day, b.day)
    ELSE IntCmp(a.month, b.month)

\* (0..self.month - 1).fold(0, |count, i| count + DAY_COUNT_FOR_MONTH[i] as u16):
\* the day counts of the months before `month`, summed in a u16
RECURSIVE days_from_month(_)
days_from_month(month) ==
    IF month <= 1 THEN 0
    ELSE (days_from_month(month - 1) + DAY_COUNT_FOR_MONTH[month - 1]) % 65536

\* a bug days_count could have: the fold runs over 0..=self.month - 1
days_count_through_month(bb) == (days_from_month(bb.month + 1) + bb.day) % 65536

\* days_from_month + self.day as u16
days_count(bb) == (days_from_month(bb.month) + bb.day) % 65536

\* days_count panics instead of returning: `self.month - 1` underflows the u8
\* for month 0 (overflow check, or 255 and then an index past the table), and
\* the fold indexes past the table from month 14 on
days_count_panics(bb) == bb.month = 0 \/ bb.month - 2 > 11

\* a bug days_left could have: wrapping_sub instead of checked_sub
days_left_wrapping(bb, today) == (days_count(bb) - days_count(today)) % 65536

\* days_left.checked_sub(days_right).unwrap_or_default(), today read from the
\* clock by the caller
days_left(bb, today) ==
    IF days_count(bb) - days_count(today) >= 0
    THEN days_count(bb) - days_count(today)
    ELSE 0

\* a bug state could have: the range of CloseFromExpiring is 1..3, not 1..=3
state_exclusive(bb, today) ==
    IF days_left(bb, today) = 0 THEN "Expired"
    ELSE IF days_left(bb, today) \in 1..2 THEN "CloseFromExpiring"
    ELSE "FarFromExpiring"

\* match self.days_left() { 0 => Expired, 1..=3 => CloseFromExpiring, _ => .. }
state(bb, today) ==
    IF days_left(bb, today) = 0 THEN "Expired"
    ELSE IF days_left(bb, today) \in 1..3 THEN "CloseFromExpiring"
    ELSE "FarFromExpiring"

\* String::cmp: lexicographic on bytes, a proper prefix is Less
RECURSIVE StrCmp(_, _)
StrCmp(s, t) ==
    IF s = <<>> /\ t = <<>> THEN 0
    ELSE IF s = <<>> THEN -1
    ELSE IF t = <<>> THEN 1
    ELSE IF IntCmp(Head(s), Head(t)) # 0 THEN IntCmp(Head(s), Head(t))
    ELSE StrCmp(Tail(s), Tail(t))

(***************************************************************************)
(* backend.rs: Food                                                        *)
(***************************************************************************)
\* a bug Ord for Food could have: the derived ordering, field by field in the
\* order of the struct (name, best_before, id, open)
FoodCmpDerived(a, b) ==
    IF StrCmp(a.name, b.name) # 0 THEN StrCmp(a.name, b.name)
    ELSE IF BestBeforeCmp(a.best_before, b.best_before) # 0
         THEN BestBeforeCmp(a.best_before, b.best_before)
    ELSE IF IntCmp(a.id, b.id) # 0 THEN IntCmp(a.id, b.id)
    ELSE IF a.open = b.open THEN 0 ELSE IF b.open THEN -1 ELSE 1

FoodCmp(a, b) ==
    IF BestBeforeCmp(a.best_before, b.best_before) = 0
    THEN IF StrCmp(a.name, b.name) = 0
         THEN IntCmp(a.id, b.id)
         ELSE StrCmp(a.name, b.name)
    ELSE BestBeforeCmp(a.best_before, b.best_before)

\* .map(|food| food.id).max().unwrap_or(0)
RECURSIVE MaxId(_)
MaxId(foods) ==
    IF foods = <<>> THEN 0
    ELSE LET m == MaxId(Tail(foods))
         IN IF Head(foods).id > m THEN Head(foods).id ELSE m

\* a bug Food::new could have: the id is the number of stored foods + 1
FoodNewByCount(foods, name, day, month) ==
    [name |-> name, best_before |-> BestBeforeNew(day, month),
     id |-> Len(foods) + 1, open |-> FALSE]

\* a bug Food::new could have: the first id is 0 (no unconditional + 1 when empty)
FoodNewFromZero(foods, name, day, month) ==
    [name |-> name, best_before |-> BestBeforeNew(day, month),
     id |-> IF foods = <<>> THEN 0 ELSE MaxId(foods) + 1, open |-> FALSE]

\* a bug Food::new could have: the smallest id above the first stored food's
FoodNewAfterFirst(foods, name, day, month) ==
    [name |-> name, best_before |-> BestBeforeNew(day, month),
     id |-> IF foods = <<>> THEN 1 ELSE Head(foods).id + 1, open |-> FALSE]

\* Food::new, given the foods Fridge::open() returned
FoodNew(foods, name, day, month) ==
    [name |-> name, best_before |-> BestBeforeNew(day, month),
     id |-> MaxId(foods) + 1, open |-> FALSE]

\* the value of a local that holds no food
NoFood == [name |-> <<>>, best_before |-> BestBeforeNew(0, 0), id |-> 0, open |-> FALSE]

(***************************************************************************)
(* backend.rs: Fridge                                                      *)
(***************************************************************************)
\* a bug Fridge::add could have: the pushed food takes a fresh id
FridgeAddFreshId(foods, item) ==
    Append(foods, [item EXCEPT !.id = MaxId(foods) + 1])

FridgeAdd(foods, item) == Append(foods, item)

\* a bug Fridge::remove could have: foods are matched on their id alone
FridgeRemoveById(foods, item) == SelectSeq(foods, LAMBDA f : f.id # item.id)

\* a bug Fridge::remove could have: the filter keeps the equal foods
FridgeRemoveKeepsEqual(foods, item) == SelectSeq(foods, LAMBDA f : f = item)

\* derive(PartialEq) compares all four fields
FridgeRemove(foods, item) == SelectSeq(foods, LAMBDA f : f # item)

\* Vec::sort is stable: x goes behind every element that is not Greater than it
RECURSIVE SortedInsert(_, _)
SortedInsert(sorted, x) ==
    IF sorted = <<>> THEN <<x>>
    ELSE IF FoodCmp(x, Head(sorted)) < 0 THEN <<x>> \o sorted
    ELSE <<Head(sorted)>> \o SortedInsert(Tail(sorted), x)

RECURSIVE SortFoods(_)
SortFoods(foods) ==
    IF foods = <<>> THEN <<>>
    ELSE SortedInsert(SortFoods(SubSeq(foods, 1, Len(foods) - 1)), foods[Len(foods)])

\* a bug Fridge::update could have: the foods are written unsorted
FridgeUpdateUnsorted(foods) == [foods |-> foods]

\* what Fridge::update would write if it read the file again and kept its foods
FridgeUpdateMerges(foods) ==
    [foods |-> SortFoods(file.foods \o SelectSeq(foods, LAMBDA f :
                                        \A i \in DOMAIN file.foods : file.foods[i] # f))]

\* the file contents Fridge::update writes
FridgeUpdate(foods) == [foods |-> SortFoods(foods)]

(***************************************************************************)
(* frontend.rs: AddFoodMenu helpers                                        *)
(***************************************************************************)
should_add_food_to_fridge(name, day, month) ==
    /\ name # <<>>
    /\ name[1] < 128
    /\ would_be_valid(day, month)

capitalize_new_food_name(name) ==
    IF name[1] >= 97 /\ name[1] <= 122
    THEN <<name[1] - 32>> \o Tail(name)
    ELSE name

Today == BestBeforeNew(1, 1)

\* no backend function is being called on its own
NoCall == [fn |-> "none", args |-> <<>>, at |-> "none", ret |-> <<>>]

InitWith(running, stores, calls) ==
    /\ file \in {[foods |-> s] : s \in stores}
    /\ storeUp = TRUE
    /\ logf = <<>>
    /\ pc = [p \in Procs |-> IF p \in running THEN "idle" ELSE "off"]
    /\ menu = [p \in Procs |-> [name |-> <<>>, day |-> Today.day, month |-> Today.month]]
    /\ left = [p \in Procs |-> 0]
    /\ food = [p \in Procs |-> NoFood]
    /\ fridge = [p \in Procs |-> <<>>]
    /\ snapshot = [p \in Procs |-> <<>>]
    /\ created = [p \in Procs |-> {}]
    /\ made = [p \in Procs |-> 0]
    /\ view \in calls

\* the foods the menu can create, in either state, with ids up to MaxStoredId
StoredFoods ==
    {[name |-> capitalize_new_food_name(n), best_before |-> BestBeforeNew(d[1], d[2]),
      id |-> i, open |-> o] :
        n \in {m \in NameInputs : should_add_food_to_fridge(m, 1, 1)},
        d \in {e \in DateInputs : would_be_valid(e[1], e[2])},
        i \in 1..MaxStoredId, o \in BOOLEAN}

\* the files earlier runs can have left: written by Fridge::update, so sorted;
\* two instances sharing the file can leave equal ids and equal foods in it
StoredFridges ==
    {s \in UNION {[1..n -> StoredFoods] : n \in 0..MaxStored} : SortFoods(s) = s}

\* one instance, on an empty fridge.json
Init == InitWith({1}, {<<>>}, {NoCall})
\* two instances, on an empty fridge.json
Init2 == InitWith({1, 2}, {<<>>}, {NoCall})
\* one instance, on the fridge.json it finds
InitStored == InitWith({1}, StoredFridges, {NoCall})

(***************************************************************************)
(* backend.rs: Fridge::open and Fridge::update against the file            *)
(***************************************************************************)
\* fs::OpenOptions::open and serde_json::from_reader both succeed
Readable == storeUp

\* unwrap_or_else(|err| log::error(err)): the instance enters log::error and
\* nothing else of it changes
Fatal(p) ==
    /\ pc' = [pc EXCEPT ![p] = "log_error"]
    /\ UNCHANGED <<menu, left, food, fridge, snapshot, created, made>>

\* to_string_pretty or fs::write fails: nothing is written
WriteFails(p) ==
    /\ file' = file
    /\ Fatal(p)

(***************************************************************************)
(* log.rs                                                                  *)
(***************************************************************************)
\* a bug log::error could have: it panics before the line is written
logSkipped(p) ==
    /\ pc[p] = "log_error"
    /\ pc' = [pc EXCEPT ![p] = "panic"]
    /\ UNCHANGED <<view, file, storeUp, logf, menu, left, food, fridge, snapshot, created, made>>

\* log(err, Level::Error): the line is appended, or an unwrap panics
log(p) ==
    /\ pc[p] = "log_error"
    /\ \/ /\ logf' = Append(logf, [level |-> "Error", proc |-> p])
          /\ pc' = [pc EXCEPT ![p] = "panic"]
       \/ /\ logf' = logf
          /\ pc' = [pc EXCEPT ![p] = "dead_unwrap"]
    /\ UNCHANGED <<view, file, storeUp, menu, left, food, fridge, snapshot, created, made>>

\* panic!() of log::error: the instance terminates
error_panic(p) ==
    /\ pc[p] = "panic"
    /\ pc' = [pc EXCEPT ![p] = "dead"]
    /\ UNCHANGED <<view, file, storeUp, logf, menu, left, food, fridge, snapshot, created, made>>

\* the bound on the foods an instance creates, by the number of instances running
CreateBudget ==
    IF Cardinality({p \in Procs : pc[p] # "off"}) = 1 THEN MaxCreate ELSE MaxCreateShared

\* the bound on the rows among which the user clicks (alone, the store never
\* holds more than MaxCreate foods)
RowBudget ==
    IF Cardinality({p \in Procs : pc[p] # "off"}) = 1 THEN MaxCreate ELSE MaxRowsShared

(***************************************************************************)
(* frontend.rs: AddFoodMenu::ui, the Ok button                             *)
(***************************************************************************)
\* the user fills the fields and clicks Ok (enabled by should_add_food_to_fridge)
OkClicked(p) ==
    /\ pc[p] = "idle"
    /\ \E name \in NameInputs, date \in DateInputs, quantity \in 1..MaxQuantity :
          /\ should_add_food_to_fridge(name, date[1], date[2])
          /\ made[p] + quantity <= CreateBudget
          /\ menu' = [menu EXCEPT ![p] = [name |-> capitalize_new_food_name(name),
                                          day |-> date[1], month |-> date[2]]]
          /\ left' = [left EXCEPT ![p] = quantity]
    /\ pc' = [pc EXCEPT ![p] = "new"]
    /\ UNCHANGED <<view, file, storeUp, logf, food, fridge, snapshot, created, made>>

\* Food::new: Fridge::open(), max id + 1
FoodNewCalled(p) ==
    /\ pc[p] = "new"
    /\ IF Readable
       THEN /\ food' = [food EXCEPT ![p] =
                          FoodNew(file.foods, menu[p].name, menu[p].day, menu[p].month)]
            /\ made' = [made EXCEPT ![p] = @ + 1]
            /\ pc' = [pc EXCEPT ![p] = "add_open"]
            /\ UNCHANGED <<menu, left, fridge, snapshot, created>>
       ELSE Fatal(p)
    /\ UNCHANGED <<view, file, storeUp, logf>>

\* Fridge::open().add(food)
AddOpen(p) ==
    /\ pc[p] = "add_open"
    /\ IF Readable
       THEN /\ fridge' = [fridge EXCEPT ![p] = FridgeAdd(file.foods, food[p])]
            /\ pc' = [pc EXCEPT ![p] = "add_write"]
            /\ UNCHANGED <<menu, left, food, snapshot, created, made>>
       ELSE Fatal(p)
    /\ UNCHANGED <<view, file, storeUp, logf>>

\* .update(), then the next iteration or reset_fields()
AddUpdate(p) ==
    /\ pc[p] = "add_write"
    /\ IF storeUp
       THEN /\ file' = FridgeUpdate(fridge[p])
            /\ created' = [created EXCEPT ![p] = @ \cup {food[p]}]
            /\ fridge' = [fridge EXCEPT ![p] = <<>>]
            /\ food' = [food EXCEPT ![p] = NoFood]
            /\ left' = [left EXCEPT ![p] = @ - 1]
            /\ IF left[p] > 1
               THEN /\ pc' = [pc EXCEPT ![p] = "new"]
                    /\ menu' = menu
               ELSE /\ pc' = [pc EXCEPT ![p] = "idle"]
                    /\ menu' = [menu EXCEPT ![p].name = <<>>]
            /\ UNCHANGED <<snapshot, made>>
       ELSE WriteFails(p)
    /\ UNCHANGED <<view, storeUp, logf>>

(***************************************************************************)
(* frontend.rs: Table::ui                                                  *)
(***************************************************************************)
\* a frame: Fridge::open() for the rows, and the user clicks the button of row i
RowClicked(p) ==
    /\ pc[p] = "idle"
    /\ IF Readable
       THEN /\ Len(file.foods) <= RowBudget
            /\ \E i \in 1..Len(file.foods) :
                  food' = [food EXCEPT ![p] = file.foods[i]]
            /\ snapshot' = [snapshot EXCEPT ![p] = file.foods]
            /\ pc' = [pc EXCEPT ![p] = "rm_open"]
            /\ UNCHANGED <<menu, left, fridge, created, made>>
       ELSE Fatal(p)
    /\ UNCHANGED <<view, file, storeUp, logf>>

\* Fridge::open().remove(&food)
RemoveOpen(p) ==
    /\ pc[p] = "rm_open"
    /\ IF Readable
       THEN /\ fridge' = [fridge EXCEPT ![p] = FridgeRemove(file.foods, food[p])]
            /\ pc' = [pc EXCEPT ![p] = "rm_write"]
            /\ UNCHANGED <<menu, left, food, snapshot, created, made>>
       ELSE Fatal(p)
    /\ UNCHANGED <<view, file, storeUp, logf>>

\* .update(); an open food was eaten, a closed one is to be added back open
RemoveUpdate(p) ==
    /\ pc[p] = "rm_write"
    /\ IF storeUp
       THEN /\ file' = FridgeUpdate(fridge[p])
            /\ fridge' = [fridge EXCEPT ![p] = <<>>]
            /\ IF food[p].open
               THEN /\ pc' = [pc EXCEPT ![p] = "idle"]
                    /\ food' = [food EXCEPT ![p] = NoFood]
                    /\ snapshot' = [snapshot EXCEPT ![p] = <<>>]
               ELSE /\ pc' = [pc EXCEPT ![p] = "re_open"]
                    /\ food' = [food EXCEPT ![p].open = TRUE]
                    /\ snapshot' = snapshot
            /\ UNCHANGED <<menu, left, created, made>>
       ELSE WriteFails(p)
    /\ UNCHANGED <<view, storeUp, logf>>

\* Fridge::open().add(food), the food now open
ReAddOpen(p) ==
    /\ pc[p] = "re_open"
    /\ IF Readable
       THEN /\ fridge' = [fridge EXCEPT ![p] = FridgeAdd(file.foods, food[p])]
            /\ pc' = [pc EXCEPT ![p] = "re_write"]
            /\ UNCHANGED <<menu, left, food, snapshot, created, made>>
       ELSE Fatal(p)
    /\ UNCHANGED <<view, file, storeUp, logf>>

\* .update(): the click is handled
ReAddUpdate(p) ==
    /\ pc[p] = "re_write"
    /\ IF storeUp
       THEN /\ file' = FridgeUpdate(fridge[p])
            /\ fridge' = [fridge EXCEPT ![p] = <<>>]
            /\ food' = [food EXCEPT ![p] = NoFood]
            /\ snapshot' = [snapshot EXCEPT ![p] = <<>>]
            /\ pc' = [pc EXCEPT ![p] = "idle"]
            /\ UNCHANGED <<menu, left, created, made>>
       ELSE WriteFails(p)
    /\ UNCHANGED <<view, storeUp, logf>>

(***************************************************************************)
(* Environment: json\fridge.json becomes unavailable and available again   *)
(***************************************************************************)
StoreToggles ==
    /\ storeUp' = ~storeUp
    /\ UNCHANGED <<view, file, logf, pc, menu, left, food, fridge, snapshot, created, made>>

(***************************************************************************)
(* Specifications                                                          *)
(***************************************************************************)
AddSteps(p) == OkClicked(p) \/ FoodNewCalled(p) \/ AddOpen(p) \/ AddUpdate(p)

ClickSteps(p) ==
    RowClicked(p) \/ RemoveOpen(p) \/ RemoveUpdate(p) \/ ReAddOpen(p) \/ ReAddUpdate(p)

ErrorSteps(p) == log(p) \/ error_panic(p)

\* every operation of the instances, with the files failing at any time
Next ==
    \/ \E p \in Procs : AddSteps(p) \/ ClickSteps(p) \/ ErrorSteps(p)
    \/ StoreToggles

\* every operation of the instances, the files always available
NextOps == \E p \in Procs : AddSteps(p) \/ ClickSteps(p)

\* the instances only add foods, the files always available
NextAdd == \E p \in Procs : AddSteps(p)

\* the instances only click table rows, the files always available
NextClick == \E p \in Procs : ClickSteps(p)

\* one instance
Spec == Init /\ [][Next]_vars

\* two instances sharing json\fridge.json
Spec2 == Init2 /\ [][NextOps]_vars

\* two instances sharing json\fridge.json, each adding foods
SpecAdd2 == Init2 /\ [][NextAdd]_vars

\* one instance clicking through the rows of the fridge.json it finds
SpecStored == InitStored /\ [][NextClick]_vars

(***************************************************************************)
(* The backend functions called on their own: the arguments are drawn when *)
(* the call is made (at = "call") and the function is applied to them      *)
(* (at = "return", or "panic" when the function does not return).          *)
(***************************************************************************)
\* the dates the add-food menu lets through (should_add_food_to_fridge), which
\* are also the dates the clock can show
ValidDates ==
    {bb \in {BestBeforeNew(d, m) : d \in 1..31, m \in 1..12} :
        would_be_valid(bb.day, bb.month)}

Call(fn, args) == [fn |-> fn, args |-> args, at |-> "call", ret |-> <<>>]

Panics == [view EXCEPT !.at = "panic"]

Returns(value) == [view EXCEPT !.at = "return", !.ret = value]

Others == <<file, storeUp, logf, pc, menu, left, food, fridge, snapshot, created, made>>

\* egui::Color32::from(food.best_before) of a table row: best_before.state(),
\* which reads the clock and calls days_left, which calls days_count twice
StateCalls(dates) == {Call("state", <<bb, today>>) : bb \in dates, today \in dates}

state_called ==
    /\ view.fn = "state" /\ view.at = "call"
    /\ LET bb == view.args[1]
           today == view.args[2]
       IN view' = IF days_count_panics(bb) \/ days_count_panics(today)
                  THEN Panics
                  ELSE Returns([days_left |-> days_left(bb, today),
                                state |-> state(bb, today)])
    /\ UNCHANGED Others

\* the u8 values of BestBefore::would_be_valid(day: u8, month: u8)
U8 == 0..255

ValidCalls(bytes) ==
    {Call("would_be_valid", <<day, month>>) : day \in bytes, month \in bytes}

would_be_valid_called ==
    /\ view.fn = "would_be_valid" /\ view.at = "call"
    /\ LET day == view.args[1]
           month == view.args[2]
       IN view' = IF would_be_valid_panics(day, month)
                  THEN Panics
                  ELSE Returns(would_be_valid(day, month))
    /\ UNCHANGED Others

InitValid == InitWith({}, {<<>>}, ValidCalls(U8))

NextValid == would_be_valid_called

\* BestBefore::would_be_valid on every pair of u8
SpecValid == InitValid /\ [][NextValid]_vars

\* foods to compare: dates that differ in the day, in the month, or in both
\* with the day and the month pulling apart; names "A", "AB", "B"; two ids;
\* open or not
CmpDates == {BestBeforeNew(1, 2), BestBeforeNew(1, 3), BestBeforeNew(5, 1),
             BestBeforeNew(6, 1)}

CmpNames == {<<65>>, <<65, 66>>, <<66>>}

CmpFoods ==
    {[name |-> n, best_before |-> bb, id |-> i, open |-> o] :
        n \in CmpNames, bb \in CmpDates, i \in {1, 2}, o \in BOOLEAN}

CmpCalls(foods) == {Call("cmp", <<a, b, c>>) : a \in foods, b \in foods, c \in foods}

\* Ord::cmp of Food, and of BestBefore, on the pairs of three foods
cmp_called ==
    /\ view.fn = "cmp" /\ view.at = "call"
    /\ LET a == view.args[1]
           b == view.args[2]
           c == view.args[3]
       IN view' = Returns(
            [food |-> [ab |-> FoodCmp(a, b), ba |-> FoodCmp(b, a),
                       bc |-> FoodCmp(b, c), ac |-> FoodCmp(a, c)],
             best_before |->
                      [ab |-> BestBeforeCmp(a.best_before, b.best_before),
                       ba |-> BestBeforeCmp(b.best_before, a.best_before),
                       bc |-> BestBeforeCmp(b.best_before, c.best_before),
                       ac |-> BestBeforeCmp(a.best_before, c.best_before)]])
    /\ UNCHANGED Others

InitOrder == InitWith({}, {<<>>}, CmpCalls(CmpFoods))

NextOrder == cmp_called

\* the orderings on every triple of CmpFoods
SpecOrder == InitOrder /\ [][NextOrder]_vars

\* pairs of valid dates, for Ord::cmp of BestBefore beside days_count
DateCmpCalls(dates) == {Call("cmp_dates", <<a, b>>) : a \in dates, b \in dates}

cmp_dates_called ==
    /\ view.fn = "cmp_dates" /\ view.at = "call"
    /\ LET a == view.args[1]
           b == view.args[2]
       IN view' = IF days_count_panics(a) \/ days_count_panics(b)
                  THEN Panics
                  ELSE Returns([cmp |-> BestBeforeCmp(a, b),
                                days_count |-> <<days_count(a), days_count(b)>>])
    /\ UNCHANGED Others

\* fridges to save: up to MaxSaved foods with dates around the ends of January
\* and February, seen on the 1st and the 15th of every month
SavedFoods ==
    {[name |-> <<65>>, best_before |-> bb, id |-> i, open |-> FALSE] :
        bb \in {BestBeforeNew(31, 1), BestBeforeNew(1, 2), BestBeforeNew(29, 2),
                BestBeforeNew(1, 3)},
        i \in {1, 2}}

SavedTodays == {bb \in ValidDates : bb.day \in {1, 15}}

UpdateCalls(stored, todays) ==
    {Call("update", <<foods, today>>) :
        foods \in UNION {[1..n -> stored] : n \in 0..MaxSaved},
        today \in todays}

\* Fridge::update, and days_left of every food of the saved fridge as the
\* table shows it on `today`
update_called ==
    /\ view.fn = "update" /\ view.at = "call"
    /\ LET saved == FridgeUpdate(view.args[1]).foods
           today == view.args[2]
       IN view' = IF \E i \in DOMAIN saved : days_count_panics(saved[i].best_before)
                  THEN Panics
                  ELSE Returns([foods |-> saved,
                                days_left |-> [i \in DOMAIN saved |->
                                    days_left(saved[i].best_before, today)]])
    /\ UNCHANGED Others

InitSorted ==
    \/ InitWith({}, {<<>>}, DateCmpCalls(ValidDates))
    \/ InitWith({}, {<<>>}, UpdateCalls(SavedFoods, SavedTodays))

NextSorted == cmp_dates_called \/ update_called

\* the order of the dates beside their day counts, and the saved fridges
SpecSorted == InitSorted /\ [][NextSorted]_vars

InitDates == InitWith({}, {<<>>}, StateCalls(ValidDates))

NextDates == state_called

\* best_before.state() on every valid date, on every date of the clock
SpecDates == InitDates /\ [][NextDates]_vars

(***************************************************************************)
(* Vocabulary of the properties                                            *)
(***************************************************************************)
Has(foods, f) == \E i \in DOMAIN foods : foods[i] = f

Count(foods, f) == Cardinality({i \in DOMAIN foods : foods[i] = f})

IdsOf(foods) == {foods[i].id : i \in DOMAIN foods}

\* a is not after b in the order (expiry month, expiry day, name, identity)
NotAfter(a, b) ==
    \/ a.best_before.month < b.best_before.month
    \/ /\ a.best_before.month = b.best_before.month
       /\ a.best_before.day < b.best_before.day
    \/ /\ a.best_before = b.best_before
       /\ StrCmp(a.name, b.name) < 0
    \/ /\ a.best_before = b.best_before
       /\ a.name = b.name
       /\ a.id <= b.id

\* the instance has entered log::error or has terminated
Failing == {"log_error", "panic", "dead", "dead_unwrap"}

\* the instance is between the click on a row and the end of its handling
InClick(p) == pc[p] \in {"rm_open", "rm_write", "re_open", "re_write"}

\* the store as the last completed operation of the lone instance left it: the rows
\* the click was made on while the click is handled, the file otherwise
Committed == IF InClick(1) THEN snapshot[1] ELSE file.foods

\* the state of the item with identity k: "absent", "closed" or "open"
ItemState(foods, k) ==
    IF \A i \in DOMAIN foods : foods[i].id # k THEN "absent"
    ELSE IF \E i \in DOMAIN foods : foods[i].id = k /\ foods[i].open THEN "open"
    ELSE "closed"

(***************************************************************************)
(* C1: in a single instance started on an empty store, whatever the user   *)
(* adds and clicks, no two foods of the persisted store have the same id.  *)
(***************************************************************************)
C1_UniqueIdentity ==
    \A i, j \in DOMAIN file.foods : i # j => file.foods[i].id # file.foods[j].id

\* two foods are stored, one of them opened, after a third was eaten
C1_Witness ==
    /\ pc[1] = "idle"
    /\ made[1] = 3
    /\ Len(file.foods) = 2
    /\ \E i \in DOMAIN file.foods : file.foods[i].open

(***************************************************************************)
(* C2: Food::new gives the new food the largest id of the persisted store  *)
(* plus 1, and 1 on an empty store: 1 on the empty store, 2 when the store *)
(* holds id 1, and 3 when id 1 was removed and the store holds id 2.       *)
(***************************************************************************)
C2_MaxPlusOne ==
    \A p \in Procs :
        pc[p] = "add_open" =>
            LET ids == IdsOf(file.foods)
                id == food[p].id
            IN  /\ ids = {} => id = 1
                /\ ids # {} => /\ id - 1 \in ids
                               /\ \A k \in ids : k <= id - 1
                /\ ids = {1} => id = 2
                /\ ids = {2} => id = 3

\* id 1 was created and removed, the store holds id 2 alone, the new food gets 3
C2_Witness ==
    /\ pc[1] = "add_open"
    /\ IdsOf(file.foods) = {2}
    /\ \E f \in created[1] : f.id = 1
    /\ food[1].id = 3

C4_StoreSorted ==
    \A i, j \in DOMAIN file.foods : i < j => NotAfter(file.foods[i], file.foods[j])

\* a food added later is stored before one added earlier, and one is opened
C4_Witness ==
    /\ \E i, j \in DOMAIN file.foods : i < j /\ file.foods[i].id > file.foods[j].id
    /\ \E i \in DOMAIN file.foods : file.foods[i].open

(***************************************************************************)
(* C5, as claimed: in a single instance an item enters the store only by   *)
(* an add, closed; a closed item changes only to open, by the click on it; *)
(* an open item changes only to absent, by the click on it.                *)
(***************************************************************************)
C5_ItemStateMachine ==
    [][\A k \in IdsOf(Committed) \cup IdsOf(Committed') :
          LET was == ItemState(Committed, k)
              is == ItemState(Committed', k)
          IN  /\ was = "absent" =>
                    \/ is = "absent"
                    \/ is = "closed" /\ pc[1] = "add_write"
              /\ was = "closed" =>
                    \/ is = "closed"
                    \/ is = "open" /\ pc[1] = "re_write" /\ food[1].id = k
              /\ was = "open" =>
                    \/ is = "open"
                    \/ is = "absent" /\ pc[1] = "rm_write" /\ food[1].id = k /\ food[1].open
      ]_vars

(***************************************************************************)
(* C6: when the click on a closed food has been handled, the store holds   *)
(* as many foods as before, the clicked food is stored open with the name, *)
(* expiry and id it had, and every other food is stored as it was.         *)
(***************************************************************************)
C6_MarkOpened ==
    [][\A p \in Procs :
          (pc[p] = "re_write" /\ pc'[p] = "idle") =>
              LET before == snapshot[p]
                  after == file'.foods
                  opened == food[p]
                  closed == [food[p] EXCEPT !.open = FALSE]
              IN  /\ Len(after) = Len(before)
                  /\ opened.open
                  /\ Count(before, closed) = 1 /\ Count(before, opened) = 0
                  /\ Count(after, opened) = 1 /\ Count(after, closed) = 0
                  /\ \A i \in DOMAIN before :
                        before[i] # closed => Count(after, before[i]) = Count(before, before[i])
      ]_vars

\* a food is stored open beside a closed one, the click on it handled
C6_Witness ==
    /\ pc[1] = "idle"
    /\ Len(file.foods) >= 2
    /\ \E i, j \in DOMAIN file.foods : file.foods[i].open /\ ~file.foods[j].open

C8_SaveOverwrites ==
    [][\A p \in Procs :
          /\ (pc[p] = "add_open" /\ pc'[p] = "add_write") =>
                fridge'[p] = file.foods \o <<food[p]>>
          /\ (pc[p] = "add_write" /\ pc'[p] # "add_write") =>
                /\ Len(file'.foods) = Len(fridge[p])
                /\ \A i \in DOMAIN fridge[p] :
                      Count(file'.foods, fridge[p][i]) = Count(fridge[p], fridge[p][i])
                /\ \A i \in DOMAIN file.foods :
                      ~Has(fridge[p], file.foods[i]) => ~Has(file'.foods, file.foods[i])
      ]_vars

\* both instances have added one food and are done; one of the foods is not stored
C8_LostUpdate ==
    /\ pc[1] = "idle" /\ pc[2] = "idle"
    /\ made[1] = 1 /\ made[2] = 1
    /\ created[1] # {} /\ created[2] # {}
    /\ \E p \in Procs : \E f \in created[p] : ~Has(file.foods, f)

(***************************************************************************)
(* C9: with two instances adding foods, the id is the largest id Food::new *)
(* reads plus 1 and is not looked at again: the food is pushed and saved   *)
(* with that id even when the file holds that id by then.  The witness is  *)
(* the race: the persisted store holds two foods with the same id.         *)
(***************************************************************************)
C9_IdReadThenUsed ==
    [][\A p \in Procs :
          /\ (pc[p] = "new" /\ pc'[p] = "add_open") =>
                /\ \A i \in DOMAIN file.foods : food'[p].id > file.foods[i].id
                /\ food'[p].id = 1 \/ food'[p].id - 1 \in IdsOf(file.foods)
          /\ (pc[p] = "add_open" /\ pc'[p] = "add_write") =>
                /\ fridge'[p][Len(fridge'[p])] = food[p]
                /\ food'[p] = food[p]
          /\ (pc[p] = "add_write" /\ pc'[p] # "add_write") =>
                Has(file'.foods, food[p])
      ]_vars

\* both instances are done and the store holds two foods with the same id
C9_DuplicateIdentity ==
    /\ pc[1] = "idle" /\ pc[2] = "idle"
    /\ \E i, j \in DOMAIN file.foods : i # j /\ file.foods[i].id = file.foods[j].id

(***************************************************************************)
(* C10, as claimed: an instance that a store failure terminated has        *)
(* appended its Error line to the log before it terminated.                *)
(***************************************************************************)
C10_ErrorLineBeforeExit ==
    \A p \in Procs :
        pc[p] \in {"dead", "dead_unwrap"} =>
            \E i \in DOMAIN logf : logf[i] = [level |-> "Error", proc |-> p]

(***************************************************************************)
(* C10, amended: a failed open, deserialize, serialize or write of the     *)
(* store is fatal: the instance enters log::error with nothing read and    *)
(* nothing written, never retries and never touches the store again, even  *)
(* when the file is available again.  log::error appends the Error line    *)
(* and then panics; when the log itself cannot be opened or written the    *)
(* instance panics in log without the line.                                *)
(***************************************************************************)
C10_FatalLogThenTerminate ==
    /\ [](\A p \in Procs :
            pc[p] \in {"panic", "dead"} =>
                \E i \in DOMAIN logf : logf[i] = [level |-> "Error", proc |-> p])
    /\ [][\A p \in Procs :
            /\ (~storeUp /\ pc[p] # pc'[p] /\ pc[p] \notin Failing
                    /\ ~(pc[p] = "idle" /\ pc'[p] = "new")) =>
                  /\ pc'[p] = "log_error"
                  /\ file' = file
                  /\ <<menu, left, food, fridge, snapshot>>' = <<menu, left, food, fridge, snapshot>>
            /\ pc[p] \in Failing =>
                  /\ pc'[p] \in Failing
                  /\ file' = file
                  /\ <<menu, left, food, fridge, snapshot>>' = <<menu, left, food, fridge, snapshot>>
            /\ (pc'[p] = "dead" /\ pc[p] # "dead") => pc[p] = "panic"
            /\ (pc'[p] = "panic" /\ pc[p] # "panic") =>
                  /\ pc[p] = "log_error"
                  /\ logf' = Append(logf, [level |-> "Error", proc |-> p])
      ]_vars

\* the instance has terminated with its line in the log, the file available again
C10_Witness ==
    /\ pc[1] = "dead"
    /\ storeUp
    /\ logf = <<[level |-> "Error", proc |-> 1]>>

(***************************************************************************)
(* C11-C16: the calendar arithmetic, the orderings, two instances          *)
(***************************************************************************)
\* the day of the year of 1 / month, less one, written out month by month
DaysBeforeMonth == <<0, 31, 60, 91, 121, 152, 182, 213, 244, 274, 305, 335>>

dayOfYear(d) == DaysBeforeMonth[d.month] + d.day

StateReturned == view.fn = "state" /\ view.at = "return"

\* C11: for every valid expiry date and every valid current date, days_left
\* returns max(0, dayOfYear(date) - dayOfYear(today)), dayOfYear being the days
\* of the months before the date's month plus its day: the result is never
\* negative and it is 0 whenever dayOfYear(date) <= dayOfYear(today)
C11_DaysRemaining ==
    view.fn = "state" /\ view.at # "call" =>
        LET diff == dayOfYear(view.args[1]) - dayOfYear(view.args[2])
        IN /\ view.at = "return"
           /\ view.ret.days_left = IF diff > 0 THEN diff ELSE 0
           /\ view.ret.days_left >= 0
           /\ diff <= 0 => view.ret.days_left = 0

\* a date earlier in the year than today has 0 days left, and a later one has
\* the difference: 01 / 03 seen on 28 / 02 has 2 (February has 29 days)
C11_Witness ==
    /\ StateReturned
    /\ \/ /\ dayOfYear(view.args[1]) < dayOfYear(view.args[2])
          /\ view.ret.days_left = 0
       \/ /\ view.args = <<BestBeforeNew(1, 3), BestBeforeNew(28, 2)>>
          /\ view.ret.days_left = 2

\* C12: on every valid expiry date and every valid current date, state returns
\* Expired for 0 days left, CloseFromExpiring for 1, 2 or 3, FarFromExpiring
\* for 4 or more: exactly one of the three, fixed by the days left
C12_StateOfDaysLeft ==
    view.fn = "state" /\ view.at # "call" =>
        /\ view.at = "return"
        /\ view.ret.state \in {"Expired", "CloseFromExpiring", "FarFromExpiring"}
        /\ view.ret.state = "Expired" <=> view.ret.days_left = 0
        /\ view.ret.state = "CloseFromExpiring" <=> view.ret.days_left \in {1, 2, 3}
        /\ view.ret.state = "FarFromExpiring" <=> view.ret.days_left >= 4

\* the upper edge of CloseFromExpiring: 3 days left
C12_Witness ==
    /\ StateReturned
    /\ view.ret.days_left = 3
    /\ view.ret.state = "CloseFromExpiring"

\* the days of a month as the calendar has them, February with 29
daysInMonth(month) ==
    IF month = 2 THEN 29 ELSE IF month \in {4, 6, 9, 11} THEN 30 ELSE 31

\* C13: for every day and month in 0..=255, would_be_valid returns, and returns
\* true exactly when 1 <= month <= 12 and 1 <= day <= daysInMonth(month); for
\* month 0 and month > 12 it returns false, it does not fail
C13_WouldBeValid ==
    view.fn = "would_be_valid" /\ view.at # "call" =>
        LET day == view.args[1]
            month == view.args[2]
        IN /\ view.at = "return"
           /\ view.ret <=> /\ 1 <= month /\ month <= 12
                           /\ 1 <= day /\ day <= daysInMonth(month)
           /\ month = 0 \/ month > 12 => view.ret = FALSE

\* month 0, which `month as usize - 1` could not take, returns false
C13_Witness ==
    /\ view.fn = "would_be_valid" /\ view.at = "return"
    /\ view.args[2] = 0
    /\ view.ret = FALSE

\* the orderings said without the code's comparisons
DateBefore(d, e) == d.month < e.month \/ (d.month = e.month /\ d.day < e.day)

NameBefore(s, t) ==
    \E k \in 1..Len(t) :
        /\ k <= Len(s) + 1
        /\ \A j \in 1..(k - 1) : s[j] = t[j]
        /\ k = Len(s) + 1 \/ s[k] < t[k]

ItemBefore(a, b) ==
    \/ DateBefore(a.best_before, b.best_before)
    \/ /\ a.best_before = b.best_before
       /\ \/ NameBefore(a.name, b.name)
          \/ a.name = b.name /\ a.id < b.id

\* r holds cmp on (a,b), (b,a), (b,c), (a,c): a total order
TotalOrder(r) ==
    /\ r.ab = 0 - r.ba
    /\ r.ab <= 0 /\ r.bc <= 0 => r.ac <= 0
    /\ r.ab <= 0 /\ r.bc <= 0 /\ (r.ab = -1 \/ r.bc = -1) => r.ac = -1

\* C14: both orderings are total and lexicographic: BestBefore by month, then
\* day; Food by best_before, then name, then id, open taking no part; two
\* foods compare Equal exactly when best_before, name and id are all equal
C14_Orderings ==
    view.fn = "cmp" /\ view.at # "call" =>
        LET a == view.args[1]
            b == view.args[2]
        IN /\ view.at = "return"
           /\ TotalOrder(view.ret.best_before)
           /\ TotalOrder(view.ret.food)
           /\ view.ret.best_before.ab = -1 <=> DateBefore(a.best_before, b.best_before)
           /\ view.ret.best_before.ab = 0 <=> a.best_before = b.best_before
           /\ view.ret.food.ab = -1 <=> ItemBefore(a, b)
           /\ view.ret.food.ab = 1 <=> ItemBefore(b, a)
           /\ view.ret.food.ab = 0 <=> /\ a.best_before = b.best_before
                                       /\ a.name = b.name
                                       /\ a.id = b.id
           /\ a.best_before = BestBeforeNew(1, 2) /\ b.best_before = BestBeforeNew(1, 3)
                => view.ret.best_before.ab = -1
           /\ a.best_before = BestBeforeNew(5, 1) /\ b.best_before = BestBeforeNew(6, 1)
                => view.ret.best_before.ab = -1

\* two foods that differ in open only compare Equal
C14_Witness ==
    /\ view.fn = "cmp" /\ view.at = "return"
    /\ view.args[1].open # view.args[2].open
    /\ view.args[1] = [view.args[2] EXCEPT !.open = view.args[1].open]
    /\ view.ret.food.ab = 0

\* C15, as claimed: with two instances on the file, when an instance handles
\* the click on a closed food of its snapshot, the store it removes the food
\* from holds that food, closed; and when it has saved the food open, the store
\* holds the open food once: no food, and no second copy of a food, comes into
\* the store by mark opened
C15_MarkOpenedOnlyStored ==
    [][\A p \in Procs :
          /\ (pc[p] = "rm_open" /\ pc'[p] = "rm_write" /\ ~food[p].open) =>
                Has(file.foods, food[p])
          /\ (pc[p] = "re_write" /\ pc'[p] = "idle") =>
                Count(file'.foods, food[p]) = 1
      ]_vars

\* C16: on valid dates a is Less than b in the ordering of BestBefore exactly
\* when days_count(a) < days_count(b); so in every fridge that update saves,
\* the dates all valid, days_left does not decrease along the saved foods
C16_OrderAgreesWithDayCount ==
    /\ view.fn = "cmp_dates" /\ view.at # "call" =>
          /\ view.at = "return"
          /\ view.ret.cmp = -1 <=> view.ret.days_count[1] < view.ret.days_count[2]
    /\ view.fn = "update" /\ view.at # "call" =>
          /\ view.at = "return"
          /\ \A i, j \in DOMAIN view.ret.days_left :
                i < j => view.ret.days_left[i] <= view.ret.days_left[j]

\* three foods given latest first are saved earliest first: the first is
\* expired on that day, the last has days left
C16_Witness ==
    /\ view.fn = "update" /\ view.at = "return"
    /\ Len(view.args[1]) = 3
    /\ BestBeforeCmp(view.args[1][3].best_before, view.args[1][1].best_before) = -1
    /\ view.ret.days_left[1] = 0
    /\ view.ret.days_left[3] > 0

====
